---- MODULE Spec2Model ----
(***************************************************************************)
(* The vblank scheduler of picom (src/vblank.h): the Present-based         *)
(* scheduler, its schedule operation, the PresentCompleteNotify handler    *)
(* and the expiry callback of its one-shot timer.  The expiry takes two    *)
(* steps, as in libev: the loop stops the due timer and queues its event,  *)
(* and calls the callback later, after any other watcher it serves first.  *)
(*                                                                         *)
(* The connection facade (x_request_vblank_event) and the consumer         *)
(* callback are external; the model records every call made to them, with  *)
(* its arguments: the requests as a count and the latest request, the      *)
(* callbacks as the sequence `callbacks`.                                  *)
(***************************************************************************)
EXTENDS Integers, Sequences, FiniteSets, TLC

\* ---------------------------------------------------------------- bounds
\* Largest msc / ust value the server puts in a notification, latest clock
\* reading, and the caps on the number of requests and of callbacks.
\* uint64_t arithmetic on these values is exact: they stay far below
\* 2^64 - 1, so last_msc + 1 never wraps for a last_msc the server sent.
MaxMsc == 2
MaxUst == 1
MaxNow == 2
MaxRequests == 2
MaxCallbacks == 2

Windows == {1, 2}
MscValues == 0..MaxMsc
UstValues == 0..MaxUst

\* ---------------------------------------------------------------- types
\* enum vblank_scheduler_type
PRESENT_VBLANK_SCHEDULER == "PRESENT_VBLANK_SCHEDULER"
SGI_VIDEO_VSYNC_VBLANK_SCHEDULER == "SGI_VIDEO_VSYNC_VBLANK_SCHEDULER"

\* cne->kind of xcb_present_complete_notify_event_t
XCB_PRESENT_COMPLETE_KIND_NOTIFY_MSC == "NOTIFY_MSC"
XCB_PRESENT_COMPLETE_KIND_PIXMAP == "PIXMAP"
Kinds == {XCB_PRESENT_COMPLETE_KIND_PIXMAP, XCB_PRESENT_COMPLETE_KIND_NOTIFY_MSC}

\* The arguments of x_request_vblank_event(c, window, msc)
Request(w, m) == [window |-> w, target_msc |-> m]

\* struct vblank_event
vblank_event(m, u) == [msc |-> m, ust |-> u]

\* The fields of xcb_present_complete_notify_event_t the handler reads.
\* Of a notification of another kind the handler reads the kind alone
\* (line 130), so one notification stands for each such kind.
Notifications ==
    [kind : {XCB_PRESENT_COMPLETE_KIND_NOTIFY_MSC}, window : Windows,
     msc : MscValues, ust : UstValues]
    \cup [kind : Kinds \ {XCB_PRESENT_COMPLETE_KIND_NOTIFY_MSC}, window : {1},
          msc : {0}, ust : {0}]

VARIABLES
    ndebug,                  \* the build: TRUE when assert() is compiled out
    type,                    \* sched->base.type
    last_msc,                \* sched->last_msc
    last_ust,                \* sched->last_ust
    vblank_event_requested,  \* sched->vblank_event_requested
    timer_active,            \* ev_is_active(&sched->callback_timer)
    timer_after,             \* the delay last given to ev_timer_set, in us
    timer_pending,           \* ev_is_pending(&sched->callback_timer)
    pending_event,           \* the event that started the timer whose expiry
                             \* is queued
    now,                     \* CLOCK_MONOTONIC, in us
    n_requests,              \* number of calls of x_request_vblank_event
    last_request,            \* arguments of the latest of them
    callbacks,               \* calls of sched->base.callback, in order
    accepted,                \* notifications that passed the validity check
    aborted,                 \* the process is gone (failed assertion) or no
                             \* longer defined (access past the object)
    armed_event,             \* the event whose handling started the timer
    event_scheduled,         \* a request was issued, nothing accepted since
    callback_due,            \* schedule was called, no callback since
    last_op                  \* the operation that produced this state

vars == <<ndebug, type, last_msc, last_ust, vblank_event_requested, timer_active,
          timer_after, timer_pending, pending_event, now, n_requests, last_request,
          callbacks, accepted, aborted, armed_event, event_scheduled, callback_due,
          last_op>>

requests == <<n_requests, last_request>>
sched == <<type, last_msc, last_ust, vblank_event_requested>>
timer == <<timer_active, timer_after, timer_pending, pending_event>>

\* What the consumer callback does with the scheduler: nothing (0), or a call
\* of vblank_scheduler_schedule on a window before it returns.
CallbackActs == {0} \cup Windows

\* What last_op records: the operation, its arguments (of an ignored
\* notification only the kind, the one field that is read), the way it ended,
\* the value it returned, whether the timer was active and an event was
\* scheduled when it started, and what the consumer callback it called did.
Op(name, cne, path, ret, was_active) ==
    [op |-> name, cne |-> cne, path |-> path, ret |-> ret, was_active |-> was_active,
     was_scheduled |-> event_scheduled, resched |-> 0]

NoCne == [kind |-> "none", window |-> 0, msc |-> 0, ust |-> 0]

\* ---------------------------------------------------------------- Init
\* vblank_scheduler_new -> present_vblank_scheduler_new: ccalloc zeroes the
\* struct, the tag is set, ev_timer_init leaves the timer inactive and not
\* pending.
present_vblank_scheduler_new ==
    /\ type = PRESENT_VBLANK_SCHEDULER
    /\ last_msc = 0
    /\ last_ust = 0
    /\ vblank_event_requested = FALSE
    /\ timer_active = FALSE
    /\ timer_after = 0
    /\ timer_pending = FALSE

\* Variant of the constructor that hands out a scheduler of the SGI tag.
vblank_scheduler_new_sgi_tag ==
    /\ type = SGI_VIDEO_VSYNC_VBLANK_SCHEDULER
    /\ last_msc = 0
    /\ last_ust = 0
    /\ vblank_event_requested = FALSE
    /\ timer_active = FALSE
    /\ timer_after = 0
    /\ timer_pending = FALSE

vblank_scheduler_new == present_vblank_scheduler_new

\* A scheduler whose tag is SGI_VIDEO_VSYNC_VBLANK_SCHEDULER.  No function of
\* the file creates one; it has the base struct only, and the variables of
\* the Present-based fields stay at 0.
sgi_vblank_scheduler ==
    /\ type = SGI_VIDEO_VSYNC_VBLANK_SCHEDULER
    /\ last_msc = 0
    /\ last_ust = 0
    /\ vblank_event_requested = FALSE
    /\ timer_active = FALSE
    /\ timer_after = 0
    /\ timer_pending = FALSE

\* Nothing has been requested, delivered or handled yet.
InitEnv ==
    /\ ndebug \in BOOLEAN
    /\ now = 0
    /\ n_requests = 0
    /\ last_request = Request(0, 0)
    /\ callbacks = <<>>
    /\ accepted = <<>>
    /\ aborted = FALSE
    /\ armed_event = vblank_event(0, 0)
    /\ pending_event = vblank_event(0, 0)
    /\ event_scheduled = FALSE
    /\ callback_due = FALSE
    /\ last_op = Op("new", NoCne, "new", FALSE, FALSE)

Init == vblank_scheduler_new /\ InitEnv

InitSgi == sgi_vblank_scheduler /\ InitEnv

\* ---------------------------------------------------------------- helpers
\* x_request_vblank_event(c, window, msc): fire and forget.
x_request_vblank_event(window, msc) ==
    /\ n_requests' = n_requests + 1
    /\ last_request' = Request(window, msc)
    /\ event_scheduled' = TRUE

\* Variant of the callback invocation in which a schedule call made by the
\* callback still sees the last_msc of before the handler's update.
invoke_callback_stale(ev, act, msc_seen, scheduled_seen) ==
    /\ callbacks' = Append(callbacks, ev)
    /\ IF act = 0
       THEN /\ callback_due' = FALSE
            /\ event_scheduled' = scheduled_seen
            /\ UNCHANGED requests
       ELSE /\ n_requests < MaxRequests
            /\ x_request_vblank_event(act, last_msc + 1)
            /\ callback_due' = TRUE

\* sched->base.callback(&(struct vblank_event){...}, user_data).  The
\* callback runs while the scheduler holds last_msc = msc_seen and the
\* bookkeeping says scheduled_seen; with act # 0 it calls
\* vblank_scheduler_schedule(sched, act, c) before it returns.
invoke_callback(ev, act, msc_seen, scheduled_seen) ==
    /\ callbacks' = Append(callbacks, ev)
    /\ IF act = 0
       THEN /\ callback_due' = FALSE
            /\ event_scheduled' = scheduled_seen
            /\ UNCHANGED requests
       ELSE /\ n_requests < MaxRequests
            /\ x_request_vblank_event(act, msc_seen + 1)
            /\ callback_due' = TRUE

\* Variant of the kind test that lets every kind through.
kind_is_notify_msc_any(cne) == TRUE

\* The test of line 130, negated: cne->kind == XCB_PRESENT_COMPLETE_KIND_NOTIFY_MSC
kind_is_notify_msc(cne) == cne.kind = XCB_PRESENT_COMPLETE_KIND_NOTIFY_MSC

\* Variant of the validity check that lets a duplicate msc through.
event_is_invalid_dup(cne) == cne.msc < last_msc \/ cne.ust = 0

\* bool event_is_invalid = cne->msc <= sched->last_msc || cne->ust == 0;
event_is_invalid(cne) == cne.msc <= last_msc \/ cne.ust = 0

\* Variants of the timing decision: off by one microsecond, and taking
\* now_us == ust as passed.
end_of_vblank_passed_late(cne) == now > cne.ust + 1
end_of_vblank_passed_eq(cne) == now >= cne.ust

\* if (now_us > cne->ust)
end_of_vblank_passed(cne) == now > cne.ust

\* ---------------------------------------------------------------- schedule
\* Variant of present_vblank_scheduler_schedule that requests last_msc again.
present_vblank_scheduler_schedule_same(window) ==
    /\ n_requests < MaxRequests
    /\ x_request_vblank_event(window, last_msc)
    /\ callback_due' = TRUE
    /\ last_op' = Op("schedule", [NoCne EXCEPT !.window = window], "present", TRUE,
                     timer_active)
    /\ UNCHANGED <<ndebug, sched, timer, now, callbacks, accepted, aborted, armed_event>>

\* Variant of present_vblank_scheduler_schedule that records the request in
\* vblank_event_requested.
present_vblank_scheduler_schedule_flag(window) ==
    /\ n_requests < MaxRequests
    /\ x_request_vblank_event(window, last_msc + 1)
    /\ vblank_event_requested' = TRUE
    /\ callback_due' = TRUE
    /\ last_op' = Op("schedule", [NoCne EXCEPT !.window = window], "present", TRUE,
                     timer_active)
    /\ UNCHANGED <<ndebug, type, last_msc, last_ust, timer, now, callbacks, accepted,
                   aborted, armed_event>>

\* present_vblank_scheduler_schedule: request last_msc + 1, return true.
present_vblank_scheduler_schedule(window) ==
    /\ n_requests < MaxRequests
    /\ x_request_vblank_event(window, last_msc + 1)
    /\ callback_due' = TRUE
    /\ last_op' = Op("schedule", [NoCne EXCEPT !.window = window], "present", TRUE,
                     timer_active)
    /\ UNCHANGED <<ndebug, sched, timer, now, callbacks, accepted, aborted, armed_event>>

\* Variant of vblank_scheduler_schedule without the case of the SGI tag.
vblank_scheduler_schedule_no_sgi(window) ==
    /\ ~aborted
    /\ present_vblank_scheduler_schedule(window)

\* vblank_scheduler_schedule: dispatch on the tag.
vblank_scheduler_schedule(window) ==
    /\ ~aborted
    /\ IF type = PRESENT_VBLANK_SCHEDULER
       THEN present_vblank_scheduler_schedule(window)
       ELSE /\ last_op' = Op("schedule", [NoCne EXCEPT !.window = window], "sgi", FALSE,
                             timer_active)
            /\ UNCHANGED <<ndebug, sched, timer, now, requests, callbacks, accepted,
                           aborted, armed_event, event_scheduled, callback_due>>

\* ---------------------------------------------------------------- notify
\* A failed assert(): abort() ends the process, nothing else happens.
assert_fails(cne) ==
    /\ aborted' = TRUE
    /\ last_op' = Op("notify", cne, "abort", FALSE, timer_active)
    /\ UNCHANGED <<ndebug, sched, timer, now, requests, callbacks, accepted,
                   armed_event, event_scheduled, callback_due>>

\* The notification was ignored: return of line 131.
ignore_notify(cne) ==
    /\ last_op' = Op("notify", [NoCne EXCEPT !.kind = cne.kind], "ignored", FALSE,
                     timer_active)
    /\ UNCHANGED <<ndebug, sched, timer, now, requests, callbacks, accepted,
                   aborted, armed_event, event_scheduled, callback_due>>

\* The handler on a scheduler of another tag, with assertions compiled out
\* and an MSC notification: the cast of line 129 makes lines 142-176 read and
\* write present_vblank_scheduler fields past the object.  The behaviour is
\* undefined; the outcomes followed are no visible effect (a crash included),
\* a request for any msc, and a callback, and the process is not followed
\* further.  The target of the request is what lies behind the object, read
\* as last_msc, plus 1 in uint64_t: any value, 0 included (2^64 - 1 wraps).
UndefinedOutcomes == {"nothing", "request", "callback"}
UndefinedTargets == 0..(MaxMsc + 1)
wrong_tag_undefined(cne) ==
    /\ aborted' = TRUE
    /\ last_op' = Op("notify", cne, "undefined", FALSE, timer_active)
    /\ \E o \in UndefinedOutcomes, target \in UndefinedTargets :
          /\ IF o = "request"
             THEN /\ n_requests' = n_requests + 1
                  /\ last_request' = Request(cne.window, target)
             ELSE target = 0 /\ UNCHANGED requests
          /\ IF o = "callback"
             THEN callbacks' = Append(callbacks, vblank_event(cne.msc, cne.ust))
             ELSE UNCHANGED callbacks
    /\ UNCHANGED <<ndebug, sched, timer, now, accepted, armed_event, event_scheduled,
                   callback_due>>

\* handle_present_complete_notify, lines 150-177: the notification is
\* accepted.  act is what the consumer callback does if it is called here.
accept_notify(cne, act) ==
    /\ vblank_event_requested' = FALSE
    /\ last_ust' = cne.ust
    /\ last_msc' = cne.msc
    /\ accepted' = Append(accepted, vblank_event(cne.msc, cne.ust))
    /\ IF end_of_vblank_passed(cne)
       THEN \* delivered after the end of the vblank: call back at once
            /\ Len(callbacks) < MaxCallbacks
            /\ invoke_callback(vblank_event(cne.msc, cne.ust), act, cne.msc, FALSE)
            /\ last_op' = [Op("notify", cne, "sync", FALSE, timer_active)
                             EXCEPT !.resched = act]
            /\ UNCHANGED <<timer, armed_event, aborted>>
       ELSE IF ~ndebug /\ timer_active
       THEN \* assert(!ev_is_active(&sched->callback_timer)) fails; a timer
            \* that was stopped with its callback still queued is not active
            /\ act = 0
            /\ aborted' = TRUE
            /\ event_scheduled' = FALSE
            /\ last_op' = Op("notify", cne, "abort", FALSE, timer_active)
            /\ UNCHANGED <<timer, armed_event, callbacks, callback_due, requests>>
       ELSE \* early: wait for the end of the vblank.  ev_timer_set overwrites
            \* the delay; ev_timer_start of an active watcher returns at once,
            \* so the timer that is running stays the one started earlier.
            \* Neither call touches an expiry that is queued.
            /\ act = 0
            /\ timer_after' = cne.ust - now
            /\ timer_active' = TRUE
            /\ UNCHANGED <<timer_pending, pending_event>>
            /\ armed_event' = IF timer_active THEN armed_event
                              ELSE vblank_event(cne.msc, cne.ust)
            /\ event_scheduled' = FALSE
            /\ last_op' = Op("notify", cne, "armed", FALSE, timer_active)
            /\ UNCHANGED <<callbacks, callback_due, aborted, requests>>
    /\ UNCHANGED <<ndebug, type, now>>

\* Variant of the retry that also stops the pending timer.
reject_notify_stops_timer(cne) ==
    /\ n_requests < MaxRequests
    /\ x_request_vblank_event(cne.window, last_msc + 1)
    /\ timer_active' = FALSE
    /\ last_op' = Op("notify", cne, "invalid", FALSE, timer_active)
    /\ UNCHANGED <<ndebug, sched, timer_after, timer_pending, pending_event, now,
                   callbacks, accepted, aborted, armed_event, callback_due>>

\* Variant of the retry that returns without a new request.
reject_notify_no_request(cne) ==
    /\ last_op' = Op("notify", cne, "invalid", FALSE, timer_active)
    /\ UNCHANGED <<ndebug, sched, timer, now, callbacks, accepted, aborted, armed_event,
                   callback_due, requests, event_scheduled>>

\* handle_present_complete_notify, lines 142-148: retry.
reject_notify(cne) ==
    /\ n_requests < MaxRequests
    /\ x_request_vblank_event(cne.window, last_msc + 1)
    /\ last_op' = Op("notify", cne, "invalid", FALSE, timer_active)
    /\ UNCHANGED <<ndebug, sched, timer, now, callbacks, accepted, aborted, armed_event,
                   callback_due>>

\* Variant of the handler that looks at the kind before it checks the tag.
handle_present_complete_notify_kind_first(cne, act) ==
    /\ ~aborted
    /\ IF ~kind_is_notify_msc(cne)
       THEN act = 0 /\ ignore_notify(cne)
       ELSE IF type # PRESENT_VBLANK_SCHEDULER
       THEN /\ act = 0
            /\ IF ~ndebug THEN assert_fails(cne) ELSE wrong_tag_undefined(cne)
       ELSE IF ~ndebug /\ ~vblank_event_requested
       THEN act = 0 /\ assert_fails(cne)
       ELSE IF event_is_invalid(cne)
       THEN act = 0 /\ reject_notify(cne)
       ELSE accept_notify(cne, act)

\* handle_present_complete_notify: the assertion on the tag, the test of the
\* kind, the assertion on vblank_event_requested, the validity check.
handle_present_complete_notify(cne, act) ==
    /\ ~aborted
    /\ IF type # PRESENT_VBLANK_SCHEDULER
       THEN /\ act = 0
            /\ IF ~ndebug
               THEN assert_fails(cne)            \* line 127
               ELSE IF ~kind_is_notify_msc(cne)
               THEN ignore_notify(cne)
               ELSE wrong_tag_undefined(cne)
       ELSE IF ~kind_is_notify_msc(cne)
       THEN act = 0 /\ ignore_notify(cne)
       ELSE IF ~ndebug /\ ~vblank_event_requested
       THEN act = 0 /\ assert_fails(cne)         \* line 134
       ELSE IF event_is_invalid(cne)
       THEN act = 0 /\ reject_notify(cne)
       ELSE accept_notify(cne, act)

\* ---------------------------------------------------------------- timer
\* The event loop finds the one-shot timer due (libev, timers_reify): it
\* stops the watcher and queues its event.  The callback is called later in
\* the same loop iteration, so no second expiry is queued on top of one.
timers_reify ==
    /\ ~aborted
    /\ timer_active
    /\ ~timer_pending
    /\ timer_active' = FALSE
    /\ timer_pending' = TRUE
    /\ pending_event' = armed_event
    /\ last_op' = Op("reify", NoCne, "reify", FALSE, TRUE)
    /\ UNCHANGED <<ndebug, sched, timer_after, now, requests, callbacks, accepted,
                   aborted, armed_event, event_scheduled, callback_due>>

\* present_vblank_callback, called by the event loop for the queued expiry.
\* Handlers of other watchers may have run since the timer was stopped.
present_vblank_callback(act) ==
    /\ ~aborted
    /\ timer_pending
    /\ Len(callbacks) < MaxCallbacks
    /\ timer_pending' = FALSE
    /\ pending_event' = vblank_event(0, 0)
    /\ invoke_callback(vblank_event(last_msc, last_ust), act, last_msc, event_scheduled)
    /\ last_op' = [Op("expire", NoCne, "expire", FALSE, timer_active)
                     EXCEPT !.resched = act]
    /\ UNCHANGED <<ndebug, sched, timer_active, timer_after, now, accepted, aborted,
                   armed_event>>

\* ---------------------------------------------------------------- clock
\* CLOCK_MONOTONIC advances.
Tick ==
    /\ ~aborted
    /\ now < MaxNow
    /\ now' = now + 1
    /\ last_op' = Op("tick", NoCne, "tick", FALSE, timer_active)
    /\ UNCHANGED <<ndebug, sched, timer, requests, callbacks, accepted, aborted,
                   armed_event, event_scheduled, callback_due>>

Schedule == \E w \in Windows : vblank_scheduler_schedule(w)
Notify == \E cne \in Notifications, act \in CallbackActs :
              handle_present_complete_notify(cne, act)
TimerReify == timers_reify
TimerExpire == \E act \in CallbackActs : present_vblank_callback(act)

Next == Schedule \/ Notify \/ TimerReify \/ TimerExpire \/ Tick

Spec == Init /\ [][Next]_vars

\* A scheduler of the SGI tag has no timer that could expire.
NextSgi == Schedule \/ Notify \/ Tick

SpecSgi == InitSgi /\ [][NextSgi]_vars

\* ================================================================ claims
CallbackCount(m) == Cardinality({j \in 1..Len(callbacks) : callbacks[j].msc = m})
AcceptedMscs == {accepted[i].msc : i \in 1..Len(accepted)}
DeliveredMscs == {callbacks[j].msc : j \in 1..Len(callbacks)}
IsNotify == last_op.op = "notify"
IsMsc == last_op.cne.kind = XCB_PRESENT_COMPLETE_KIND_NOTIFY_MSC

\* C1: every accepted notification gets exactly one consumer callback for its
\* event: never more than one, and not zero once no timer is left armed or
\* has its expiry queued.
C1_SingleCallbackPerAccepted ==
    \A i \in 1..Len(accepted) :
        /\ CallbackCount(accepted[i].msc) <= 1
        /\ (~timer_active /\ ~timer_pending) => CallbackCount(accepted[i].msc) = 1

\* C2: the msc values of successive consumer callbacks are strictly
\* increasing, and once no timer is left armed or has its expiry queued every
\* accepted msc was delivered.
C2_StrictlyIncreasingDelivery ==
    /\ \A i, j \in 1..Len(callbacks) : i < j => callbacks[i].msc < callbacks[j].msc
    /\ (~timer_active /\ ~timer_pending) => AcceptedMscs \subseteq DeliveredMscs

\* C3: the handler never reaches its timer-arming branch while callback_timer
\* is still active.
C3_NeverArmsActiveTimer ==
    (IsNotify /\ last_op.path = "armed") => ~last_op.was_active

\* C4: the callback made for an expiry of the timer carries the msc and ust
\* of the notification that armed the timer for that expiry.
C4_ExpiryDeliversArmingEvent ==
    [][last_op'.op = "expire" => callbacks' = Append(callbacks, pending_event)]_vars

\* The handler step that has just been taken, seen from the state before it.
NotifyStep == last_op'.op = "notify"
MscStep == NotifyStep /\ last_op'.cne.kind = XCB_PRESENT_COMPLETE_KIND_NOTIFY_MSC
AcceptStep == MscStep /\ last_op'.path \in {"sync", "armed"}

\* C5: an MSC notification is treated as invalid exactly when
\* msc <= last_msc or ust = 0; handling such a notification leaves last_msc,
\* last_ust, vblank_event_requested and the timer unchanged, calls no callback
\* and issues one request for last_msc + 1 on its own window.
C5_InvalidNotificationRetried ==
    [][MscStep =>
          /\ (last_op'.path = "invalid")
               <=> (last_op'.cne.msc <= last_msc \/ last_op'.cne.ust = 0)
          /\ (last_op'.cne.msc <= last_msc \/ last_op'.cne.ust = 0) =>
               /\ UNCHANGED <<last_msc, last_ust, vblank_event_requested,
                              timer_active, timer_after, timer_pending, callbacks>>
               /\ n_requests' = n_requests + 1
               /\ last_request' = Request(last_op'.cne.window, last_msc + 1)]_vars

\* C6: last_msc and last_ust are those of the most recently accepted
\* notification (0 if there is none); last_msc strictly increases at each
\* acceptance and changes at no other step.
C6_LastEventIsLastAccepted ==
    /\ [](/\ IF accepted = <<>>
             THEN last_msc = 0 /\ last_ust = 0
             ELSE /\ last_msc = accepted[Len(accepted)].msc
                  /\ last_ust = accepted[Len(accepted)].ust
          /\ \A i, j \in 1..Len(accepted) : i < j => accepted[i].msc < accepted[j].msc)
    /\ [][/\ AcceptStep => (/\ last_msc' > last_msc
                            /\ last_msc' = last_op'.cne.msc
                            /\ last_ust' = last_op'.cne.ust)
          /\ ~AcceptStep => UNCHANGED <<last_msc, last_ust>>]_vars

\* C6 witness: a second notification was accepted after a first one.
C6_Witness ==
    /\ Len(accepted) = 2
    /\ IsNotify /\ last_op.path \in {"sync", "armed"}
    /\ last_msc = last_op.cne.msc /\ last_ust = last_op.cne.ust

\* C7: every schedule call on a Present-based scheduler issues exactly one
\* request, for last_msc + 1 on the given window, and returns true.
C7_ScheduleRequestsNext ==
    [][(last_op'.op = "schedule" /\ type = PRESENT_VBLANK_SCHEDULER) =>
          /\ n_requests' = n_requests + 1
          /\ last_request' = Request(last_op'.cne.window, last_msc + 1)
          /\ last_op'.ret = TRUE]_vars

\* C7 witness: schedule was called with a request outstanding and the timer
\* armed, after an event had been accepted.
C7_Witness ==
    /\ last_op.op = "schedule" /\ last_op.ret = TRUE
    /\ last_op.was_active /\ last_op.was_scheduled /\ last_msc > 0
    /\ n_requests = 2
    /\ last_request = Request(last_op.cne.window, last_msc + 1)

\* C8: a schedule call made while an event is already scheduled (a request
\* was issued and nothing has been accepted since) issues no request, changes
\* no state and returns false.
C8_ScheduleDeduplicates ==
    [][(last_op'.op = "schedule" /\ event_scheduled) =>
          /\ last_op'.ret = FALSE
          /\ UNCHANGED <<requests, sched, timer, callbacks>>]_vars

\* C9: a schedule call is followed by a consumer callback; so the process
\* never ends (an assertion failure is final) with a scheduled callback
\* still due.
C9_ScheduledCallbackNotLost ==
    aborted => ~callback_due

\* C10: an accepted notification handled with now > ust is delivered to the
\* consumer callback once, inside the handler, and the timer is left alone.
C10_ImmediateFire ==
    [][(AcceptStep /\ now > last_op'.cne.ust) =>
          /\ callbacks' = Append(callbacks, vblank_event(last_op'.cne.msc,
                                                         last_op'.cne.ust))
          /\ UNCHANGED <<timer_active, timer_after, timer_pending>>]_vars

\* C10 witness: a late notification was delivered at once, no timer armed.
C10_Witness ==
    /\ IsNotify /\ IsMsc /\ last_op.path = "sync"
    /\ now > last_op.cne.ust
    /\ ~timer_active
    /\ callbacks[Len(callbacks)] = vblank_event(last_op.cne.msc, last_op.cne.ust)
\* C11: an accepted notification handled with now <= ust (now = ust included)
\* calls no callback in the handler and arms the timer for ust - now; a
\* notification arms the timer if and only if it is accepted with now <= ust.
C11_DelayedFire ==
    [][NotifyStep =>
          /\ AcceptStep => ((now <= last_op'.cne.ust) <=> (last_op'.path = "armed"))
          /\ (last_op'.path = "armed") =>
               /\ AcceptStep /\ now <= last_op'.cne.ust
               /\ callbacks' = callbacks
               /\ timer_active'
               /\ timer_after' = last_op'.cne.ust - now
          /\ (last_op'.path # "armed") =>
                UNCHANGED <<timer_active, timer_after, timer_pending>>]_vars

\* C11 witness: a notification handled at now = ust armed the timer for 0 us.
C11_Witness ==
    /\ IsNotify /\ IsMsc /\ last_op.path = "armed"
    /\ ~last_op.was_active /\ timer_active
    /\ now = last_op.cne.ust /\ timer_after = 0
    /\ callbacks = <<>>
\* C12: handling a stale, duplicate or zero-timestamp MSC notification never
\* ends in an assertion failure.
C12_InvalidNeverFatal ==
    (IsNotify /\ IsMsc /\ (last_op.cne.msc <= last_msc \/ last_op.cne.ust = 0))
        => ~aborted

\* C13: a notification of another kind than NOTIFY_MSC changes nothing:
\* last_msc, last_ust, vblank_event_requested, the timer, the requests and
\* the callbacks are as before.
C13_OtherKindsIgnored ==
    [][(NotifyStep /\ last_op'.cne.kind # "NOTIFY_MSC") =>
          UNCHANGED <<last_msc, last_ust, vblank_event_requested, timer_active,
                      timer_after, timer_pending, n_requests, last_request,
                      callbacks>>]_vars

\* C13 witness: a PIXMAP notification was ignored with the timer armed, a
\* request outstanding and an event already accepted.
C13_Witness ==
    /\ IsNotify /\ last_op.cne.kind = "PIXMAP" /\ last_op.path = "ignored"
    /\ timer_active /\ event_scheduled /\ last_msc > 0 /\ ~aborted

\* C15: while the timer is armed or its expiry is queued, schedule calls,
\* notifications of another kind and invalid notifications leave it as it
\* is, with the same delay; an expiry stops the timer, is then queued, and is
\* taken off the queue by one call of the consumer callback and by nothing
\* else.
C15_ArmedTimerRunsToCompletion ==
    [][/\ (/\ timer_active \/ timer_pending
           /\ \/ last_op'.op = "schedule"
              \/ NotifyStep /\ last_op'.path \in {"ignored", "invalid"})
          => UNCHANGED <<timer_active, timer_after, timer_pending>>
       /\ (last_op'.op = "reify") =>
            /\ timer_active /\ ~timer_active'
            /\ ~timer_pending /\ timer_pending'
            /\ callbacks' = callbacks
       /\ (last_op'.op = "expire") =>
            /\ timer_pending /\ ~timer_pending'
            /\ Len(callbacks') = Len(callbacks) + 1
       /\ (timer_pending' # timer_pending) => last_op'.op \in {"reify", "expire"}]_vars

\* C15 witness: the callback of an expiry was called after a request (schedule
\* or retry) was issued while the timer was armed or the expiry queued.
C15_Witness ==
    /\ last_op.op = "expire" /\ last_op.resched = 0
    /\ ~timer_active /\ ~timer_pending
    /\ n_requests >= 1 /\ event_scheduled
    /\ Len(accepted) = 1 /\ callbacks = <<armed_event>>

\* C16: whenever the handler processes an MSC notification that answers a
\* request (one was issued and nothing has been accepted since),
\* vblank_event_requested is true.
C16_RequestedFlagTracksRequest ==
    [][(MscStep /\ event_scheduled) => vblank_event_requested]_vars
\* C14: on a scheduler of the SGI tag, schedule returns false, issues no
\* request and changes no state.
C14_SgiScheduleDoesNothing ==
    [][(last_op'.op = "schedule" /\ type = SGI_VIDEO_VSYNC_VBLANK_SCHEDULER) =>
          /\ last_op'.ret = FALSE
          /\ UNCHANGED <<type, last_msc, last_ust, vblank_event_requested,
                         timer_active, timer_after, n_requests, last_request,
                         callbacks>>]_vars

\* C14 witness: schedule returned false on an SGI scheduler, nothing requested.
C14_Witness ==
    /\ last_op.op = "schedule" /\ last_op.ret = FALSE /\ last_op.cne.window = 2
    /\ type = SGI_VIDEO_VSYNC_VBLANK_SCHEDULER
    /\ n_requests = 0 /\ ~event_scheduled /\ now > 0

\* C17: when the consumer callback runs inside the handler, the scheduler
\* already holds the delivered event, so a schedule call made by the callback
\* requests msc + 1 of that event.
C17_CallbackSeesDeliveredEvent ==
    [][(AcceptStep /\ last_op'.path = "sync" /\ last_op'.resched # 0) =>
          /\ last_msc' = last_op'.cne.msc
          /\ last_ust' = last_op'.cne.ust
          /\ vblank_event_requested' = FALSE
          /\ n_requests' = n_requests + 1
          /\ last_request' = Request(last_op'.resched, last_op'.cne.msc + 1)]_vars

\* C17 witness: the callback of an event with msc 2, delivered at once to a
\* scheduler that held msc 0, scheduled the next event and msc 3 was requested.
C17_Witness ==
    /\ IsNotify /\ last_op.path = "sync" /\ last_op.resched # 0
    /\ last_op.cne.msc = 2 /\ Len(accepted) = 1
    /\ last_request = Request(last_op.resched, 3)

\* C18: last_msc, last_ust and vblank_event_requested change in the
\* notification handler only; schedule leaves them and the timer alone; the
\* expiry of the timer leaves them alone and issues no request of its own.
C18_OnlyHandlerMutatesState ==
    [][/\ (<<last_msc, last_ust, vblank_event_requested>>'
              # <<last_msc, last_ust, vblank_event_requested>>) => NotifyStep
       /\ (last_op'.op = "schedule") =>
             UNCHANGED <<last_msc, last_ust, vblank_event_requested, timer_active,
                         timer_after, timer_pending>>
       /\ (last_op'.op = "expire") =>
             /\ UNCHANGED <<last_msc, last_ust, vblank_event_requested>>
             /\ IF last_op'.resched = 0
                THEN UNCHANGED <<n_requests, last_request>>
                ELSE n_requests' = n_requests + 1]_vars

\* C18 witness: the timer expired, its callback returned without scheduling,
\* and the state is that of the accepted event, with a request made before.
C18_Witness ==
    /\ last_op.op = "expire" /\ last_op.resched = 0
    /\ n_requests >= 1 /\ Len(accepted) = 1
    /\ last_msc = accepted[1].msc /\ last_ust = accepted[1].ust

\* C19: the number of requests is the number of schedule calls plus the
\* number of invalid notifications retried: it starts at 0, each schedule
\* call (the caller's, or one made by the consumer callback) and each retry
\* adds one, and no other step adds any; accepting a notification, ignoring
\* one and the expiry of the timer issue no request themselves.
C19_RequestsAreSchedulesPlusRetries ==
    /\ [](last_op.op = "new" => n_requests = 0)
    /\ [][/\ n_requests' = n_requests +
                 (IF \/ last_op'.op = "schedule"
                     \/ NotifyStep /\ last_op'.path = "invalid"
                     \/ last_op'.resched # 0
                  THEN 1 ELSE 0)
          /\ (/\ last_op'.resched = 0
              /\ \/ last_op'.op \in {"reify", "expire"}
                 \/ NotifyStep /\ last_op'.path \in {"sync", "armed", "ignored"})
             => UNCHANGED <<n_requests, last_request>>]_vars

\* C19 witness: a schedule call made by the consumer callback and a retry
\* after it made two requests.
C19_Witness ==
    /\ IsNotify /\ last_op.path = "invalid" /\ n_requests = 2
    /\ Len(callbacks) = 1 /\ callback_due

\* C20 as stated: a handler call on a scheduler of another tag is a fatal
\* assertion failure with no state changed, no request and no callback.
C20_WrongTagIsFatal ==
    (IsNotify /\ type # PRESENT_VBLANK_SCHEDULER) =>
        /\ aborted /\ last_op.path = "abort"
        /\ n_requests = 0 /\ callbacks = <<>>

\* C20 amended: in a build that keeps assertions, a handler call on a
\* scheduler of another tag fails the assertion before the notification is
\* looked at: no state changed, no request, no callback.
C20_WrongTagIsFatalWithAssertions ==
    [][(NotifyStep /\ type # PRESENT_VBLANK_SCHEDULER /\ ~ndebug) =>
          /\ aborted' /\ last_op'.path = "abort"
          /\ UNCHANGED <<type, last_msc, last_ust, vblank_event_requested,
                         timer_active, timer_after, n_requests, last_request,
                         callbacks>>]_vars

\* C20 witness: with assertions kept, a PIXMAP notification handed to an SGI
\* scheduler ended the process.
C20_Witness ==
    /\ IsNotify /\ last_op.path = "abort" /\ aborted /\ ~ndebug
    /\ type = SGI_VIDEO_VSYNC_VBLANK_SCHEDULER
    /\ last_op.cne.kind = "PIXMAP"
    /\ n_requests = 0 /\ callbacks = <<>>
\* C21: a scheduler made by vblank_scheduler_new keeps the Present-based tag
\* in every state; every call of vblank_scheduler_schedule on it takes the
\* Present-based branch and returns true, and no notification handled on it
\* meets the wrong tag (the failed assertion of line 127, or the handler
\* running on a scheduler of another type).
C21_TagIsPresentForLife ==
    /\ type = PRESENT_VBLANK_SCHEDULER
    /\ last_op.op = "schedule" => (last_op.path = "present" /\ last_op.ret = TRUE)
    /\ IsNotify => last_op.path # "undefined"
    /\ (IsNotify /\ last_op.path = "abort") =>
          (IsMsc /\ (~vblank_event_requested \/ last_op.was_active))

\* C21 witness: in a build with assertions, after two schedule calls that
\* returned through the Present-based branch (no retry is made in such a
\* build, so both requests are theirs), a notification got past the
\* assertion on the tag and was ignored for its kind.
C21_Witness ==
    /\ ~ndebug /\ type = PRESENT_VBLANK_SCHEDULER
    /\ n_requests = 2
    /\ IsNotify /\ last_op.path = "ignored" /\ ~aborted
\* C22: a newly constructed scheduler has last_msc = 0, last_ust = 0,
\* vblank_event_requested = FALSE and no armed timer; a schedule call made
\* before any notification was accepted requests target_msc = 1; and an MSC
\* notification with msc = 0 handled before any was accepted, the first one
\* included, is rejected as invalid and retried with a request for
\* target_msc = 1 on its window.
C22_NewSchedulerStartsAtZero ==
    /\ last_op.op = "new" =>
          /\ last_msc = 0 /\ last_ust = 0
          /\ vblank_event_requested = FALSE
          /\ ~timer_active /\ ~timer_pending
    /\ (last_op.op = "schedule" /\ accepted = <<>>) =>
          last_request = Request(last_op.cne.window, 1)
    /\ (IsNotify /\ IsMsc /\ last_op.cne.msc = 0 /\ accepted = <<>>) =>
          /\ last_op.path = "invalid"
          /\ last_request = Request(last_op.cne.window, 1)
====
